---- MODULE Spec2Model ----
(***************************************************************************)
(* Model of the relay client of gnosis-safe-sdk-rs: SafeClient             *)
(* (src/api/client.rs) and the json_get!/json_post! request macros         *)
(* (src/api.rs), running against a Safe transaction service.               *)
(*                                                                         *)
(* Each async fn is split at its .await points: one action per request     *)
(* that is awaited.  The body reads that follow a response (resp.text(),   *)
(* resp.json()) touch no shared state and are folded into the action of    *)
(* the response they belong to.                                            *)
(*                                                                         *)
(* The service is the environment.  It is taken to keep its interface:     *)
(* the on-chain nonce it reports never decreases, and the list it answers  *)
(* a nonce__gte request with holds only nonces at least that bound.        *)
(* Everything else it does (statuses, bodies, failures) is free.           *)
(*                                                                         *)
(* The serde encodings of the api module (src/api/wrappers.rs,             *)
(* src/api/types.rs) and the conversion of a signed payload into a         *)
(* ProposeRequest are pure functions.  They are operators here, applied to *)
(* enumerated inputs by the actions of WireSpec.                           *)
(***************************************************************************)
EXTENDS Integers, Sequences, FiniteSets, TLC

\* ------------------------------------------------------------------ bounds
\* Largest value of the nonce type.  The code uses u64 / AtomicU64; the
\* model keeps the wrap-around of the type at a width TLC can enumerate.
MaxNonce == 2
\* Number of calls callers may make on the client (safe_tx_builder,
\* safe_info, pending, next_nonce, propose).
MaxCalls == 2

NonceMod == MaxNonce + 1
Nonces == 0 .. MaxNonce
None == 0 - 1

Ctor == "ctor"
Callers == {"c1", "c2"}
Tasks == {Ctor} \cup Callers

\* ------------------------------------------------------- the HTTP exchange
StatusCodes == {200, 404}
Bodies == {"b1", "b2"}

\* StatusCode::is_success: 200..=299
IsSuccess(status) == status >= 200 /\ status <= 299

\* What can happen to one request: send() fails, or a response arrives with
\* a status.  A success response of a GET is decoded by json::<T>(), which
\* may fail.  An error response is given to tracing::warn!, whose fields
\* are evaluated only when the WARN level is enabled (warnOn); only then is
\* the body read by text(), which may fail.  `readable` says that the read
\* or the decoding succeeded, `body` is the text of an error response that
\* was read.
Exchanges ==
  {[sendOk |-> FALSE, status |-> 0, body |-> "", readable |-> FALSE,
    warnOn |-> FALSE]}
  \cup [sendOk : {TRUE}, status : {s \in StatusCodes : ~IsSuccess(s)},
        body : Bodies, readable : {TRUE}, warnOn : {TRUE}]
  \cup [sendOk : {TRUE}, status : {s \in StatusCodes : ~IsSuccess(s)},
        body : {""}, readable : {FALSE}, warnOn : BOOLEAN]
  \cup [sendOk : {TRUE}, status : {s \in StatusCodes : IsSuccess(s)},
        body : {""}, readable : BOOLEAN, warnOn : {FALSE}]

ErrSend == "reqwest: send"
ErrBody == "reqwest: body"
ErrDecode == "reqwest: decode"
ErrUnexpected == "Unexpected response from server"

\* An error value built by anyhow!("...") from a literal, or converted from
\* a reqwest::Error by `?`: it holds a message and nothing of the response.
NoErr == [msg |-> "", status |-> 0, body |-> ""]
Anyhow(msg) == [msg |-> msg, status |-> 0, body |-> ""]

\* The event of tracing::warn!.
NoWarn == [method |-> "", status |-> 0, response |-> ""]
Warn(m, x) == [method |-> m, status |-> x.status, response |-> x.body]

Ok == [st |-> "ok", err |-> NoErr, warn |-> NoWarn]
Err(msg, w) == [st |-> "err", err |-> Anyhow(msg), warn |-> w]

\* json_post!: Ok(()) on a success status; otherwise the response is logged
\* by tracing::warn! and a fixed anyhow error is returned.
JsonPostNoBody(x) ==
  IF ~x.sendOk THEN Err(ErrSend, NoWarn)
  ELSE IF ~IsSuccess(x.status) THEN
    IF ~x.warnOn THEN Err(ErrUnexpected, NoWarn)
    ELSE IF ~x.readable THEN Err(ErrBody, NoWarn)
    ELSE Err(ErrUnexpected,
             [method |-> "POST", status |-> x.status, response |-> ""])
  ELSE Ok
JsonPost(x) ==
  IF ~x.sendOk THEN Err(ErrSend, NoWarn)
  ELSE IF ~IsSuccess(x.status) THEN
    IF ~x.warnOn THEN Err(ErrUnexpected, NoWarn)
    ELSE IF ~x.readable THEN Err(ErrBody, NoWarn)
    ELSE Err(ErrUnexpected, Warn("POST", x))
  ELSE Ok

\* json_get!: Err on a non-success status, otherwise the decoded body.
JsonGetNoStatusCheck(x) ==
  IF ~x.sendOk THEN Err(ErrSend, NoWarn)
  ELSE IF ~x.readable THEN Err(ErrDecode, NoWarn)
  ELSE Ok
JsonGet(x) ==
  IF ~x.sendOk THEN Err(ErrSend, NoWarn)
  ELSE IF ~IsSuccess(x.status) THEN
    IF ~x.warnOn THEN Err(ErrUnexpected, NoWarn)
    ELSE IF ~x.readable THEN Err(ErrBody, NoWarn)
    ELSE Err(ErrUnexpected, Warn("GET", x))
  ELSE IF ~x.readable THEN Err(ErrDecode, NoWarn)
  ELSE Ok

\* ------------------------------------------------------------ the requests
ReqInfo == [method |-> "GET", path |-> "safes", gte |-> None, nonce |-> None]
ReqList(n) ==
  [method |-> "GET", path |-> "multisig-transactions", gte |-> n,
   nonce |-> None]
ReqPost(n) ==
  [method |-> "POST", path |-> "multisig-transactions", gte |-> None,
   nonce |-> n]

\* The lists the service may answer a list request with: transactions of
\* the safe whose nonce is at least the nonce__gte of the request.
ServiceLists(gte) == SUBSET {n \in Nonces : n >= gte}

SetMax(S) == CHOOSE m \in S : \A n \in S : n <= m
Max(a, b) == IF a >= b THEN a ELSE b

\* ========================================================= wire encodings
\* The serde encodings of src/api/wrappers.rs and src/api/types.rs.  Text is
\* a sequence of one-character strings; a JSON value is a string or a number.

\* Length of a hash in bytes ([u8; 32]) and of an address in bytes (H160),
\* at a length whose strings TLC can enumerate.
HashLen == 2
AddrLen == 1
\* Largest value of u128, at a width TLC can write out; U256 reaches
\* (MaxU128 + 1)^2 - 1 as 2^256 - 1 = (2^128)^2 - 1.
MaxU128 == 11
MaxU256 == (MaxU128 + 1) * (MaxU128 + 1) - 1
\* Largest value of u8.
U8Max == 255

JStr(s) == [t |-> "string", s |-> s, n |-> 0]
JNum(n) == [t |-> "number", s |-> <<>>, n |-> n]
JNull == [t |-> "null", s |-> <<>>, n |-> 0]

WireOk(v) == [st |-> "ok", val |-> v, json |-> JNull]
WireErr == [st |-> "err", val |-> <<>>, json |-> JNull]
\* An overflowing conversion panics: the call does not return.
WirePanic == [st |-> "panic", val |-> <<>>, json |-> JNull]

Digits == <<"0", "1", "2", "3", "4", "5", "6", "7", "8", "9">>
HexLower == Digits \o <<"a", "b", "c", "d", "e", "f">>
HexUpper == Digits \o <<"A", "B", "C", "D", "E", "F">>
IsHexChar(c) == \E i \in 1 .. 16 : HexLower[i] = c \/ HexUpper[i] = c
HexVal(c) == (CHOOSE i \in 1 .. 16 : HexLower[i] = c \/ HexUpper[i] = c) - 1
ToUpper(c) ==
  IF \E i \in 1 .. 16 : HexLower[i] = c
  THEN HexUpper[CHOOSE i \in 1 .. 16 : HexLower[i] = c] ELSE c

\* hex::encode: two lowercase digits per byte.
HexEncode(bytes) ==
  [i \in 1 .. 2 * Len(bytes) |->
     LET b == bytes[(i + 1) \div 2] IN
     IF i % 2 = 1 THEN HexLower[(b \div 16) + 1] ELSE HexLower[(b % 16) + 1]]

\* hex::decode: an odd length or a character that is no hex digit is an
\* error; digits of either case are taken.
HexDecode(s) ==
  IF Len(s) % 2 = 1 THEN WireErr
  ELSE IF \E i \in 1 .. Len(s) : ~IsHexChar(s[i]) THEN WireErr
  ELSE WireOk([i \in 1 .. Len(s) \div 2 |->
                 16 * HexVal(s[2 * i - 1]) + HexVal(s[2 * i])])

\* str::strip_prefix("0x").unwrap_or(s)
StripPrefix0x(s) ==
  IF Len(s) >= 2 /\ s[1] = "0" /\ s[2] = "x" THEN SubSeq(s, 3, Len(s)) ELSE s
HasPrefix0x(s) == Len(s) >= 2 /\ s[1] = "0" /\ s[2] = "x"

\* format!("{}", n) of an unsigned integer.
RECURSIVE Decimal(_)
Decimal(n) ==
  IF n < 10 THEN <<Digits[n + 1]>>
  ELSE Append(Decimal(n \div 10), Digits[(n % 10) + 1])

\* ---- Hash
\* hex_encode_hash: "0x" and the lowercase hex of the 32 bytes.
HexEncodeHash(hash) == JStr(<<"0", "x">> \o HexEncode(hash))

\* A decoder that copies what it decoded into the hash without looking at
\* its length.
HexDecodeHashAnyLength(j) ==
  IF j.t # "string" THEN WireErr
  ELSE LET d == HexDecode(StripPrefix0x(j.s)) IN
       IF d.st # "ok" THEN WireErr
       ELSE WireOk([i \in 1 .. HashLen |->
                      IF i <= Len(d.val) THEN d.val[i] ELSE 0])
\* hex_decode_hash: the string, less one leading "0x", is hex-decoded and
\* must give exactly the bytes of a hash.
HexDecodeHash(j) ==
  IF j.t # "string" THEN WireErr
  ELSE LET d == HexDecode(StripPrefix0x(j.s)) IN
       IF d.st # "ok" THEN WireErr
       ELSE IF Len(d.val) # HashLen THEN WireErr
       ELSE WireOk(d.val)

\* ---- ChecksumAddress
RECURSIVE SumHex(_)
SumHex(s) == IF s = <<>> THEN 0 ELSE HexVal(Head(s)) + SumHex(Tail(s))
\* The i-th hex digit of the Keccak-256 hash of the lowercase hex text of an
\* address.  The hash is the library's; here it is a fixed stand-in that
\* depends on the whole text and on the position.
KeccakNibble(hex, i) == (SumHex(hex) + 7 * i) % 16
\* ethers::utils::to_checksum(addr, None): a letter is written in upper
\* case where the hash digit at its position is 8 or more.
ToChecksum(addr) ==
  LET hex == HexEncode(addr) IN
  <<"0", "x">> \o [i \in 1 .. Len(hex) |->
                     IF KeccakNibble(hex, i) >= 8 THEN ToUpper(hex[i])
                     ELSE hex[i]]
SerializeChecksumAddress(addr) == JStr(ToChecksum(addr))

\* Address::from_str (fixed-hash): one leading "0x" is dropped, then exactly
\* 2 * 20 hex digits of either case are read.
ParseAddress(s) ==
  LET d == HexDecode(StripPrefix0x(s)) IN
  IF d.st # "ok" THEN WireErr
  ELSE IF Len(d.val) # AddrLen THEN WireErr
  ELSE WireOk(d.val)
\* impl FromStr for ChecksumAddress
ChecksumAddressFromStr(s) == ParseAddress(s)
\* impl Deserialize for ChecksumAddress: Address::deserialize.  Whether a
\* text without "0x" is taken depends on the version of the hex
\* deserializer the build links (needPrefix).
DeserializeChecksumAddress(j, needPrefix) ==
  IF j.t # "string" THEN WireErr
  ELSE IF needPrefix /\ ~HasPrefix0x(j.s) THEN WireErr
  ELSE ParseAddress(j.s)

\* ---- Operation
Operations == {"CALL", "DELEGATE"}
\* `*self as u8`
OperationAsU8(o) == IF o = "CALL" THEN 0 ELSE 1
SerializeOperation(o) == JNum(OperationAsU8(o))
\* u8::deserialize: a JSON integer in 0..=255.
DeserializeU8(j) ==
  IF j.t = "number" /\ j.n >= 0 /\ j.n <= U8Max THEN WireOk(j.n) ELSE WireErr
\* A decoder that takes every other value for a call.
DeserializeOperationLenient(j) ==
  LET v == DeserializeU8(j) IN
  IF v.st # "ok" THEN WireErr
  ELSE IF v.val = 1 THEN WireOk("DELEGATE")
  ELSE WireOk("CALL")
DeserializeOperation(j) ==
  LET v == DeserializeU8(j) IN
  IF v.st # "ok" THEN WireErr
  ELSE IF v.val = 0 THEN WireOk("CALL")
  ELSE IF v.val = 1 THEN WireOk("DELEGATE")
  ELSE WireErr

\* ---- DecimalU256
\* impl Serialize for DecimalU256: format!("{}", self.0) as a JSON string.
SerializeDecimalU256(n) == JStr(Decimal(n))
\* derive(Serialize) on a u128 field: serialize_u128, a JSON number.
SerializeU128(n) == JNum(n)

\* ---- ProposeRequest
\* Option::None of calldata(): no byte sequence equals it.
NoCalldata == <<0 - 1>>
Panic == 0 - 1
\* U256::as_u128: the value when it fits, a panic when it does not.
AsU128(v) == IF v > MaxU128 THEN Panic ELSE v

\* The EIP-712 signing hash of a payload.  The hash is computed outside the
\* files modelled here; this stand-in is a function of the safe, the
\* intent and the nonce.
Digest(sp) ==
  LET k == sp.nonce + 2 * sp.value + 3 * sp.safe_tx_gas + 5 * sp.base_gas
           + 7 * sp.gas_price + 11 * sp.safe_address[1] + 13 * sp.to[1]
           + 17 * sp.gas_token[1] + 19 * OperationAsU8(sp.operation)
           + 23 * (IF sp.calldata = NoCalldata THEN 0 ELSE Len(sp.calldata))
  IN [i \in 1 .. HashLen |-> (k + i) % 256]

NumericFields == {"value", "safe_tx_gas", "base_gas", "gas_price", "nonce"}

ProposeRequestOf(sp, safe, sender) ==
  [safe |-> safe,
   to |-> sp.to,
   value |-> AsU128(sp.value),
   data |-> IF sp.calldata = NoCalldata THEN <<>> ELSE sp.calldata,
   operation |-> sp.operation,
   gas_token |-> sp.gas_token,
   safe_tx_gas |-> AsU128(sp.safe_tx_gas),
   base_gas |-> AsU128(sp.base_gas),
   gas_price |-> AsU128(sp.gas_price),
   nonce |-> AsU128(sp.nonce),
   contract_transaction_hash |-> Digest(sp),
   sender |-> sender,
   signature |-> HexEncode(sp.signature)]

\* A conversion that takes the signer for the safe and the safe for the
\* signer.
TryFromSwapped(sp, digestOk) ==
  IF ~digestOk THEN WireErr
  ELSE LET req == ProposeRequestOf(sp, sp.sender, sp.safe_address) IN
       IF \E f \in NumericFields : req[f] = Panic THEN WirePanic
       ELSE WireOk(req)
\* impl TryFrom<SignedSafePayload<T>> for ProposeRequest: the hash first
\* (`?`), then the fields; each as_u128() may panic.
TryFrom(sp, digestOk) ==
  IF ~digestOk THEN WireErr
  ELSE LET req == ProposeRequestOf(sp, sp.safe_address, sp.sender) IN
       IF \E f \in NumericFields : req[f] = Panic THEN WirePanic
       ELSE WireOk(req)

\* derive(Serialize), rename_all = "camelCase": the JSON body of the POST.
SerializeProposeRequest(req) ==
  [safe |-> SerializeChecksumAddress(req.safe),
   to |-> SerializeChecksumAddress(req.to),
   value |-> SerializeU128(req.value),
   data |-> JStr(<<"0", "x">> \o HexEncode(req.data)),
   operation |-> SerializeOperation(req.operation),
   gasToken |-> SerializeChecksumAddress(req.gas_token),
   safeTxGas |-> SerializeU128(req.safe_tx_gas),
   baseGas |-> SerializeU128(req.base_gas),
   gasPrice |-> SerializeU128(req.gas_price),
   nonce |-> SerializeU128(req.nonce),
   contractTransactionHash |-> HexEncodeHash(req.contract_transaction_hash),
   sender |-> SerializeChecksumAddress(req.sender),
   signature |-> JStr(req.signature)]

\* ---- the values the encodings are tried on
Strings(alphabet, maxLen) ==
  UNION {[1 .. n -> alphabet] : n \in 0 .. maxLen}
Prefixes == {<<>>, <<"0", "x">>}

HashTexts ==
  {p \o b : p \in Prefixes,
            b \in Strings({"0", "a", "F", "x"}, 2 * HashLen + 2)}
HashValues == [1 .. HashLen -> {0, 171, 255}]

AddrTexts ==
  {p \o b : p \in Prefixes,
            b \in Strings({"1", "a", "A", "x"}, 2 * AddrLen + 1)}
AddrA == [i \in 1 .. AddrLen |-> 171]
AddrB == [i \in 1 .. AddrLen |-> 28]

OperationWire ==
  {JNum(n) : n \in {0 - 1, 0, 1, 2, U8Max, U8Max + 1}} \cup {JStr(<<"0">>)}

U256Samples == {0, MaxU128, MaxU128 + 1}
SignedSafePayloads ==
  [to : {AddrA, AddrB},
   value : U256Samples,
   calldata : {NoCalldata, <<1, 171>>},
   operation : Operations,
   safe_tx_gas : U256Samples,
   base_gas : U256Samples,
   gas_price : U256Samples,
   gas_token : {AddrA, AddrB},
   nonce : U256Samples,
   safe_address : {AddrA, AddrB},
   signature : {<<27>>, <<171, 28>>},
   sender : {AddrA, AddrB}]

NoIn == [kind |-> "none", val |-> <<>>, flag |-> FALSE]
NoOut == [st |-> "none", val |-> <<>>, json |-> JNull]

\* ------------------------------------------------------------------- state
VARIABLES
  chainNonce,   \* service: the on-chain nonce of the safe
  client,       \* lifecycle of the SafeClient value
  nonce,        \* SafeClient.nonce (AtomicU64)
  op,           \* per task: the operation it is running
  pc,           \* per task: the .await it is suspended at
  loc,          \* per task: the locals of next_nonce / pending
  sent,         \* per task: the requests the operation has sent, in order
  resps,        \* per task: the exchanges the operation has seen, in order
  got,          \* per task: what the service put into its successful answers
  holding,      \* per caller: the nonce of the builder it holds
  handed,       \* the nonces returned by safe_tx_builder, in order
  seed,         \* the value SafeClient::new stored into nonce
  calls,        \* calls made by callers
  last,         \* the operation that returned in the step just taken, and
                \* what it returned (NoLast after any other step)
  wireIn,       \* the value an encoding or conversion is applied to
  wireOut       \* what the encoding or conversion gave

vars == <<chainNonce, client, nonce, op, pc, loc, sent, resps, got, holding,
          handed, seed, calls, last, wireIn, wireOut>>
wire == <<wireIn, wireOut>>

NoLoc == [reported_next |-> None, nonce |-> None]
NoRet == [st |-> "none", num |-> None, list |-> {}, err |-> NoErr]
NoGot == [infos |-> <<>>, list |-> {}]
NoLast == [task |-> "", op |-> "none", ret |-> NoRet, sent |-> <<>>,
           resps |-> <<>>, got |-> NoGot, warned |-> NoWarn]

Init ==
  /\ chainNonce \in Nonces
  /\ client = "none"
  /\ nonce = 0
  /\ op = [t \in Tasks |-> "none"]
  /\ pc = [t \in Tasks |-> "idle"]
  /\ loc = [t \in Tasks |-> NoLoc]
  /\ sent = [t \in Tasks |-> <<>>]
  /\ resps = [t \in Tasks |-> <<>>]
  /\ got = [t \in Tasks |-> NoGot]
  /\ holding = [c \in Callers |-> None]
  /\ handed = <<>>
  /\ seed = None
  /\ calls = 0
  /\ last = NoLast
  /\ wireIn = NoIn
  /\ wireOut = NoOut

\* --------------------------------------------------------- the environment
\* The safe executes a transaction: its on-chain nonce advances.
EnvChainAdvance ==
  /\ last = NoLast
  /\ chainNonce < MaxNonce
  /\ chainNonce' = chainNonce + 1
  /\ UNCHANGED <<client, nonce, op, pc, loc, sent, resps, got, holding,
                 handed, seed, calls>>
  /\ last' = NoLast
  /\ UNCHANGED wire

\* ------------------------------------------------------------ task helpers
\* No return is waiting to be taken by its caller.
Quiet == last = NoLast
Awaiting(t) ==
  Quiet /\ pc[t] \in {"info", "nn_info", "p_info", "p_list", "post"}
\* Caller c holds the client and is not inside an operation on it.
Free(c) ==
  /\ Quiet
  /\ c \in Callers /\ client = "ready" /\ pc[c] = "idle"
  /\ calls < MaxCalls

\* A caller starts operation o: the first request of the operation is sent
\* and the task suspends at the first .await.
Begin(c, o, at, req) ==
  /\ Free(c)
  /\ calls' = calls + 1
  /\ op' = [op EXCEPT ![c] = o]
  /\ pc' = [pc EXCEPT ![c] = at]
  /\ sent' = [sent EXCEPT ![c] = <<req>>]
  /\ UNCHANGED <<loc, resps, got>>
  /\ last' = NoLast

\* The operation of task t returns r to its caller after exchange x, having
\* logged w; g is what the service had answered.  The frame is gone.
Return(t, r, x, g, w) ==
  /\ last' = [task |-> t, op |-> op[t], ret |-> r, sent |-> sent[t],
              resps |-> Append(resps[t], x), got |-> g, warned |-> w]
  /\ op' = [op EXCEPT ![t] = "none"]
  /\ pc' = [pc EXCEPT ![t] = "idle"]
  /\ loc' = [loc EXCEPT ![t] = NoLoc]
  /\ sent' = [sent EXCEPT ![t] = <<>>]
  /\ resps' = [resps EXCEPT ![t] = <<>>]
  /\ got' = [got EXCEPT ![t] = NoGot]

Failure(r) == [NoRet EXCEPT !.st = "err", !.err = r.err]

\* The `?` after an awaited call: the error is returned from the operation.
\* A failure of SafeClient::new drops the client that was being built.
PropagateDefault(t, r, x, g) ==
  /\ Return(t, Failure(r), x, g, r.warn)
  /\ client' = IF op[t] = "new" THEN "ready" ELSE client
  /\ UNCHANGED <<nonce, seed>>
Propagate(t, r, x, g) ==
  /\ Return(t, Failure(r), x, g, r.warn)
  /\ client' = IF op[t] = "new" THEN "failed" ELSE client
  /\ UNCHANGED <<nonce, seed>>

\* ------------------------------------------------------- SafeClient::new
\* `this` is built with nonce 0 and next_nonce() is awaited on it.
NewStart ==
  /\ Quiet
  /\ client = "none"
  /\ client' = "constructing"
  /\ nonce' = 0
  /\ op' = [op EXCEPT ![Ctor] = "new"]
  /\ pc' = [pc EXCEPT ![Ctor] = "nn_info"]
  /\ sent' = [sent EXCEPT ![Ctor] = <<ReqInfo>>]
  /\ UNCHANGED <<chainNonce, loc, resps, got, holding, handed, seed, calls>>
  /\ last' = NoLast
  /\ UNCHANGED wire

\* -------------------------------------------- SafeClient::safe_tx_builder
\* AtomicU64::fetch_add(1): returns the previous value, wraps on overflow.
FetchAdd(cur) == [prev |-> cur, next |-> (cur + 1) % NonceMod]

SafeTxBuilder(c) ==
  /\ Free(c)
  /\ calls' = calls + 1
  /\ nonce' = FetchAdd(nonce).next
  /\ holding' = [holding EXCEPT ![c] = FetchAdd(nonce).prev]
  /\ handed' = Append(handed, FetchAdd(nonce).prev)
  /\ UNCHANGED <<chainNonce, client, op, pc, loc, sent, resps, got, seed>>
  /\ last' = NoLast
  /\ UNCHANGED wire

\* A builder is dropped without being proposed.
DropBuilder(c) ==
  /\ Quiet /\ pc[c] = "idle"
  /\ holding[c] # None
  /\ holding' = [holding EXCEPT ![c] = None]
  /\ UNCHANGED <<chainNonce, client, nonce, op, pc, loc, sent, resps, got,
                 handed, seed, calls>>
  /\ last' = NoLast
  /\ UNCHANGED wire

\* ------------------------------------------------- starting an operation
CallSafeInfo(c) ==
  /\ Begin(c, "safe_info", "info", ReqInfo)
  /\ UNCHANGED <<chainNonce, client, nonce, holding, handed, seed>>
  /\ UNCHANGED wire

CallPending(c) ==
  /\ Begin(c, "pending", "p_info", ReqInfo)
  /\ UNCHANGED <<chainNonce, client, nonce, holding, handed, seed>>
  /\ UNCHANGED wire

CallNextNonce(c) ==
  /\ Begin(c, "next_nonce", "nn_info", ReqInfo)
  /\ UNCHANGED <<chainNonce, client, nonce, holding, handed, seed>>
  /\ UNCHANGED wire

\* propose(tx): the request built from the builder the caller holds is
\* moved into the call and posted.
CallPropose(c) ==
  /\ holding[c] # None
  /\ Begin(c, "propose", "post", ReqPost(holding[c]))
  /\ holding' = [holding EXCEPT ![c] = None]
  /\ UNCHANGED <<chainNonce, client, nonce, handed, seed>>
  /\ UNCHANGED wire

\* ------------------------------------------------------ awaited responses
\* The service put its data into the body of the answer.
Served(x) == x.sendOk /\ IsSuccess(x.status) /\ x.readable

\* pending(): the nonce of the metadata it fetched is the nonce__gte of the
\* list request.
PendingNoLowerBound(info_nonce) == 0
PendingLowerBound(info_nonce) == info_nonce

\* A next_nonce that hands its own metadata to the list request instead of
\* letting pending() fetch it again.
InfoOkTwoReads(t, x, g) ==
  CASE pc[t] = "info" ->
         /\ Return(t, [NoRet EXCEPT !.st = "ok", !.num = chainNonce], x, g,
                   NoWarn)
         /\ UNCHANGED <<client, nonce, seed>>
    [] pc[t] \in {"nn_info", "p_info"} ->
         /\ pc' = [pc EXCEPT ![t] = "p_list"]
         /\ loc' = [loc EXCEPT ![t].reported_next = chainNonce,
                               ![t].nonce = chainNonce]
         /\ sent' = [sent EXCEPT
                       ![t] = Append(@, ReqList(PendingLowerBound(chainNonce)))]
         /\ resps' = [resps EXCEPT ![t] = Append(@, x)]
         /\ got' = [got EXCEPT ![t] = g]
         /\ UNCHANGED <<client, nonce, seed, op>>
         /\ last' = NoLast

\* What follows a successful safe_info().await, by the place it was
\* awaited at: in safe_info itself, in next_nonce, or in pending.
InfoOk(t, x, g) ==
  CASE pc[t] = "info" ->
         /\ Return(t, [NoRet EXCEPT !.st = "ok", !.num = chainNonce], x, g,
                   NoWarn)
         /\ UNCHANGED <<client, nonce, seed>>
    [] pc[t] = "nn_info" ->
         /\ pc' = [pc EXCEPT ![t] = "p_info"]
         /\ loc' = [loc EXCEPT ![t].reported_next = chainNonce]
         /\ sent' = [sent EXCEPT ![t] = Append(@, ReqInfo)]
         /\ resps' = [resps EXCEPT ![t] = Append(@, x)]
         /\ got' = [got EXCEPT ![t] = g]
         /\ UNCHANGED <<client, nonce, seed, op>>
         /\ last' = NoLast
    [] pc[t] = "p_info" ->
         /\ pc' = [pc EXCEPT ![t] = "p_list"]
         /\ loc' = [loc EXCEPT ![t].nonce = chainNonce]
         /\ sent' = [sent EXCEPT
                       ![t] = Append(@, ReqList(PendingLowerBound(chainNonce)))]
         /\ resps' = [resps EXCEPT ![t] = Append(@, x)]
         /\ got' = [got EXCEPT ![t] = g]
         /\ UNCHANGED <<client, nonce, seed, op>>
         /\ last' = NoLast

\* The answer to a GET v1/safes/{address}/ arrives.
InfoResponse(t, x) ==
  /\ Quiet
  /\ pc[t] \in {"info", "nn_info", "p_info"}
  /\ LET g == IF Served(x)
              THEN [got[t] EXCEPT !.infos = Append(@, chainNonce)]
              ELSE got[t]
     IN IF JsonGet(x).st = "ok" THEN InfoOk(t, x, g)
        ELSE Propagate(t, JsonGet(x), x, g)
  /\ UNCHANGED <<chainNonce, holding, handed, calls>>
  /\ UNCHANGED wire

\* next_nonce(): one past the largest pending nonce, or the reported nonce
\* when nothing is pending.  The value before it is fitted into a u64.
NextNonceNoFallback(reported_next, results) ==
  IF results # {} THEN SetMax(results) + 1 ELSE 0
NextNonce(reported_next, results) ==
  IF results # {} THEN SetMax(results) + 1 ELSE reported_next

\* `max + 1` on u64: beyond the largest value the addition panics in a build
\* with overflow checks and wraps in a build without them.
AddOutcomes(v) == IF v > MaxNonce THEN {"panic", "wrap"} ELSE {"value"}

\* A next_nonce that stores what it computed on every call.
NextNonceFinishResync(t, results, x, g) ==
  \E o \in AddOutcomes(NextNonce(loc[t].reported_next, results)) :
    IF o = "panic"
    THEN /\ Return(t, [NoRet EXCEPT !.st = "panic"], x, g, NoWarn)
         /\ client' = IF op[t] = "new" THEN "failed" ELSE client
         /\ UNCHANGED <<nonce, seed>>
    ELSE LET n == NextNonce(loc[t].reported_next, results) % NonceMod IN
         /\ Return(t, [NoRet EXCEPT !.st = "ok", !.num = n], x, g, NoWarn)
         /\ nonce' = n
         /\ IF op[t] = "new"
            THEN seed' = n /\ client' = "ready"
            ELSE UNCHANGED <<seed, client>>

\* The end of next_nonce(), and of SafeClient::new when it was called from
\* there: the nonce is stored and the client is returned.
NextNonceFinish(t, results, x, g) ==
  \E o \in AddOutcomes(NextNonce(loc[t].reported_next, results)) :
    IF o = "panic"
    THEN /\ Return(t, [NoRet EXCEPT !.st = "panic"], x, g, NoWarn)
         /\ client' = IF op[t] = "new" THEN "failed" ELSE client
         /\ UNCHANGED <<nonce, seed>>
    ELSE LET n == NextNonce(loc[t].reported_next, results) % NonceMod IN
         /\ Return(t, [NoRet EXCEPT !.st = "ok", !.num = n], x, g, NoWarn)
         /\ IF op[t] = "new"
            THEN nonce' = n /\ seed' = n /\ client' = "ready"
            ELSE UNCHANGED <<nonce, seed, client>>

\* The answer to GET .../multisig-transactions/?nonce__gte=N arrives; the
\* service answers with the list `results`.
ListResponse(t, x, results) ==
  /\ Quiet
  /\ pc[t] = "p_list"
  /\ results \in ServiceLists(sent[t][Len(sent[t])].gte)
  /\ ~Served(x) => results = {}
  /\ LET g == IF Served(x) THEN [got[t] EXCEPT !.list = results] ELSE got[t]
     IN IF JsonGet(x).st # "ok" THEN Propagate(t, JsonGet(x), x, g)
        ELSE IF op[t] = "pending"
        THEN /\ Return(t, [NoRet EXCEPT !.st = "ok", !.list = results], x, g,
                       NoWarn)
             /\ UNCHANGED <<client, nonce, seed>>
        ELSE NextNonceFinish(t, results, x, g)
  /\ UNCHANGED <<chainNonce, holding, handed, calls>>
  /\ UNCHANGED wire

\* The answer to the POST of propose arrives.
PostResponseRetry(t, x) ==
  /\ Quiet
  /\ pc[t] = "post"
  /\ IF JsonPost(x).st = "ok"
     THEN Return(t, [NoRet EXCEPT !.st = "ok"], x, got[t], NoWarn)
     ELSE IF Len(sent[t]) < 2
     THEN /\ sent' = [sent EXCEPT ![t] = Append(@, sent[t][1])]
          /\ resps' = [resps EXCEPT ![t] = Append(@, x)]
          /\ UNCHANGED <<op, pc, loc, got>>
          /\ last' = NoLast
     ELSE Return(t, Failure(JsonPost(x)), x, got[t], JsonPost(x).warn)
  /\ UNCHANGED <<chainNonce, client, nonce, holding, handed, seed, calls>>
  /\ UNCHANGED wire
PostResponse(t, x) ==
  /\ Quiet
  /\ pc[t] = "post"
  /\ IF JsonPost(x).st = "ok"
     THEN Return(t, [NoRet EXCEPT !.st = "ok"], x, got[t], NoWarn)
     ELSE Return(t, Failure(JsonPost(x)), x, got[t], JsonPost(x).warn)
  /\ UNCHANGED <<chainNonce, client, nonce, holding, handed, seed, calls>>
  /\ UNCHANGED wire

\* The future of a suspended operation is dropped by its caller.  Nothing
\* runs on drop; a client under construction is dropped with it.
Dropped(t) ==
  [task |-> t, op |-> op[t], ret |-> [NoRet EXCEPT !.st = "cancelled"],
   sent |-> sent[t], resps |-> resps[t], got |-> got[t], warned |-> NoWarn]

CancelRollback(t) ==
  /\ Awaiting(t)
  /\ last' = Dropped(t)
  /\ op' = [op EXCEPT ![t] = "none"]
  /\ pc' = [pc EXCEPT ![t] = "idle"]
  /\ loc' = [loc EXCEPT ![t] = NoLoc]
  /\ sent' = [sent EXCEPT ![t] = <<>>]
  /\ resps' = [resps EXCEPT ![t] = <<>>]
  /\ got' = [got EXCEPT ![t] = NoGot]
  /\ client' = IF op[t] = "new" THEN "failed" ELSE client
  /\ nonce' = IF op[t] = "propose" THEN sent[t][1].nonce ELSE nonce
  /\ UNCHANGED <<chainNonce, holding, handed, seed, calls>>
  /\ UNCHANGED wire
Cancel(t) ==
  /\ Awaiting(t)
  /\ last' = Dropped(t)
  /\ op' = [op EXCEPT ![t] = "none"]
  /\ pc' = [pc EXCEPT ![t] = "idle"]
  /\ loc' = [loc EXCEPT ![t] = NoLoc]
  /\ sent' = [sent EXCEPT ![t] = <<>>]
  /\ resps' = [resps EXCEPT ![t] = <<>>]
  /\ got' = [got EXCEPT ![t] = NoGot]
  /\ client' = IF op[t] = "new" THEN "failed" ELSE client
  /\ UNCHANGED <<chainNonce, nonce, holding, handed, seed, calls>>
  /\ UNCHANGED wire

\* The caller takes what the operation returned.
Deliver ==
  /\ last # NoLast
  /\ last' = NoLast
  /\ UNCHANGED <<chainNonce, client, nonce, op, pc, loc, sent, resps, got,
                 holding, handed, seed, calls>>
  /\ UNCHANGED wire

\* ------------------------------------------------------- the specification
Next ==
  \/ EnvChainAdvance
  \/ NewStart
  \/ \E c \in Callers : SafeTxBuilder(c)
  \/ \E c \in Callers : DropBuilder(c)
  \/ \E c \in Callers : CallSafeInfo(c)
  \/ \E c \in Callers : CallPending(c)
  \/ \E c \in Callers : CallNextNonce(c)
  \/ \E c \in Callers : CallPropose(c)
  \/ \E t \in Tasks, x \in Exchanges : InfoResponse(t, x)
  \/ \E t \in Tasks, x \in Exchanges, results \in SUBSET Nonces :
       ListResponse(t, x, results)
  \/ \E t \in Tasks, x \in Exchanges : PostResponse(t, x)
  \/ \E t \in Tasks : Cancel(t)
  \/ Deliver

Spec == Init /\ [][Next]_vars

\* ------------------------------------------- the encodings, applied once
\* Each behaviour takes one value and applies one encoding or conversion
\* to it; the client is not constructed.
In(kind, val, flag) == [kind |-> kind, val |-> val, flag |-> flag]
WireKinds ==
  {"hash_decode", "hash_roundtrip", "address_from_str", "address_deserialize",
   "operation_decode", "operation_roundtrip", "propose"}
WireInputs(kind) ==
  CASE kind = "hash_decode" ->
         {In(kind, JStr(s), FALSE) : s \in HashTexts}
         \cup {In(kind, JNum(0), FALSE)}
    [] kind = "hash_roundtrip" ->
         {In(kind, h, FALSE) : h \in HashValues}
    [] kind = "address_from_str" ->
         {In(kind, s, FALSE) : s \in AddrTexts}
    [] kind = "address_deserialize" ->
         {In(kind, JStr(s), b) : s \in AddrTexts, b \in BOOLEAN}
    [] kind = "operation_decode" ->
         {In(kind, j, FALSE) : j \in OperationWire}
    [] kind = "operation_roundtrip" ->
         {In(kind, o, FALSE) : o \in Operations}
    [] kind = "propose" ->
         {In(kind, sp, b) : sp \in SignedSafePayloads, b \in BOOLEAN}

relay == <<chainNonce, client, nonce, op, pc, loc, sent, resps, got, holding,
           handed, seed, calls, last>>

WireInit ==
  /\ chainNonce = 0
  /\ client = "none"
  /\ nonce = 0
  /\ op = [t \in Tasks |-> "none"]
  /\ pc = [t \in Tasks |-> "idle"]
  /\ loc = [t \in Tasks |-> NoLoc]
  /\ sent = [t \in Tasks |-> <<>>]
  /\ resps = [t \in Tasks |-> <<>>]
  /\ got = [t \in Tasks |-> NoGot]
  /\ holding = [c \in Callers |-> None]
  /\ handed = <<>>
  /\ seed = None
  /\ calls = 0
  /\ last = NoLast
  /\ \E kind \in WireKinds : wireIn \in WireInputs(kind)
  /\ wireOut = NoOut

\* The encoding has not been applied yet; its result is kept.
Apply(result) ==
  /\ wireOut.st = "none"
  /\ wireOut' = result
  /\ UNCHANGED <<wireIn, relay>>

\* Hash::deserialize
DecodeHash ==
  /\ wireIn.kind = "hash_decode"
  /\ Apply(HexDecodeHash(wireIn.val))
\* Hash::serialize, then Hash::deserialize of what it wrote
RoundTripHash ==
  /\ wireIn.kind = "hash_roundtrip"
  /\ Apply([HexDecodeHash(HexEncodeHash(wireIn.val))
              EXCEPT !.json = HexEncodeHash(wireIn.val)])
\* str::parse::<ChecksumAddress>
AddressFromStr ==
  /\ wireIn.kind = "address_from_str"
  /\ Apply(ChecksumAddressFromStr(wireIn.val))
\* ChecksumAddress::deserialize
AddressDeserialize ==
  /\ wireIn.kind = "address_deserialize"
  /\ Apply(DeserializeChecksumAddress(wireIn.val, wireIn.flag))
\* Operation::deserialize
DecodeOperation ==
  /\ wireIn.kind = "operation_decode"
  /\ Apply(DeserializeOperation(wireIn.val))
\* Operation::serialize, then Operation::deserialize of what it wrote
RoundTripOperation ==
  /\ wireIn.kind = "operation_roundtrip"
  /\ Apply([DeserializeOperation(SerializeOperation(wireIn.val))
              EXCEPT !.json = SerializeOperation(wireIn.val)])
\* ProposeRequest::try_from(signed payload)
ConvertPayload ==
  /\ wireIn.kind = "propose"
  /\ Apply(TryFrom(wireIn.val, wireIn.flag))
\* .json(&params) of json_post!: the request is written as the POST body.
WriteBody ==
  /\ wireIn.kind = "propose"
  /\ wireOut.st = "ok"
  /\ wireOut.json = JNull
  /\ wireOut' = [wireOut EXCEPT !.json = SerializeProposeRequest(wireOut.val)]
  /\ UNCHANGED <<wireIn, relay>>

WireNext ==
  \/ DecodeHash
  \/ RoundTripHash
  \/ AddressFromStr
  \/ AddressDeserialize
  \/ DecodeOperation
  \/ RoundTripOperation
  \/ ConvertPayload
  \/ WriteBody

WireSpec == WireInit /\ [][WireNext]_vars

\* ================================================================== claims
\* The exchange that ended the operation which returned (none when it was
\* cancelled before any answer).
LastX ==
  IF Len(last.resps) > 0 THEN last.resps[Len(last.resps)]
  ELSE [sendOk |-> FALSE, status |-> 0, body |-> "", readable |-> FALSE,
        warnOn |-> FALSE]
Rejected(x) == x.sendOk /\ ~IsSuccess(x.status)
SeedPlus(k) == (seed + k) % NonceMod

\* C1: the nonces handed out by safe_tx_builder are pairwise distinct and
\* are exactly the contiguous run seed, seed+1, ..., seed+N-1.
C1_ContiguousRun ==
  seed # None =>
    /\ \A i \in 1 .. Len(handed) : handed[i] = seed + (i - 1)
    /\ \A i, j \in 1 .. Len(handed) : i # j => handed[i] # handed[j]

\* C2: construction seeds the allocator with max(reported on-chain nonce,
\* 1 + largest pending nonce), whatever the service reported.
C2_SeedIsMax ==
  (last.op = "new" /\ Len(last.resps) = 3
     /\ \A i \in 1 .. 3 : Served(last.resps[i])) =>
    /\ client = "ready"
    /\ seed = IF last.got.list = {} THEN last.got.infos[1]
              ELSE Max(last.got.infos[1], 1 + SetMax(last.got.list))

\* C3: when the service reports no pending transaction during
\* construction, the allocator is seeded with the on-chain nonce the
\* service reported to next_nonce.
C3_EmptyPendingSeedsReported ==
  (last.op = "new" /\ Len(last.resps) = 3
     /\ (\A i \in 1 .. 3 : Served(last.resps[i]))
     /\ last.got.list = {}) =>
    /\ last.ret.st = "ok"
    /\ client = "ready"
    /\ seed = last.got.infos[1]
    /\ nonce = seed

C3_Witness ==
  /\ last.op = "new" /\ last.ret.st = "ok"
  /\ last.got.list = {}
  /\ last.got.infos = <<1, 2>>
  /\ seed = 1

\* C4: each nonce safe_tx_builder returns is strictly greater than every
\* nonce the same client returned before.
C4_StrictlyIncreasing ==
  \A i, j \in 1 .. Len(handed) : i < j => handed[i] < handed[j]

\* C5: a propose that succeeds, fails or is cancelled, and a builder that
\* is dropped, leave the nonce counter as it is: the counter always is the
\* seed plus the number of builders handed out.
C5_NonceConsumed ==
  /\ [](client = "ready" => nonce = SeedPlus(Len(handed)))
  /\ [][(\E c \in Callers :
           \/ op[c] = "propose" /\ op'[c] = "none"
           \/ holding[c] # None /\ holding'[c] = None)
        => nonce' = nonce]_vars

C5_Witness ==
  /\ last.op = "propose" /\ last.ret.st = "cancelled"
  /\ Len(handed) = 1
  /\ nonce = SeedPlus(1)

\* C6: when a fetch of the construction fails (transport error, non-success
\* status, undecodable body), SafeClient::new returns an error and no
\* client; builders and calls exist only on a client that was seeded.
C6_NewFailsAsWhole ==
  /\ (last.op = "new"
        /\ \E i \in 1 .. Len(last.resps) : ~Served(last.resps[i]))
     => (last.ret.st = "err" /\ client = "failed")
  /\ client # "ready" =>
       /\ handed = <<>> /\ calls = 0
       /\ \A c \in Callers : holding[c] = None /\ op[c] = "none"
  /\ client = "ready" => seed # None

C6_Witness ==
  /\ last.op = "new" /\ last.ret.st = "err"
  /\ Len(last.resps) = 3
  /\ Rejected(LastX)
  /\ client = "failed"

\* C7: an operation returns a failure whenever the service answered one of
\* its requests with a non-success status, and returns success only when
\* every answer had a success status.
C7_StatusDecides ==
  /\ \A t \in Tasks : \A i \in 1 .. Len(resps[t]) :
       resps[t][i].sendOk /\ IsSuccess(resps[t][i].status)
  /\ last.op # "none" =>
       /\ last.ret.st = "ok" =>
            \A i \in 1 .. Len(last.resps) :
              last.resps[i].sendOk /\ IsSuccess(last.resps[i].status)
       /\ (\E i \in 1 .. Len(last.resps) : Rejected(last.resps[i]))
            => last.ret.st = "err"

C7_Witness ==
  /\ last.op = "pending" /\ last.ret.st = "err"
  /\ Len(last.resps) = 2
  /\ Rejected(LastX) /\ LastX.readable

C9_NoRetry ==
  /\ [](/\ \A c \in Callers : op[c] = "propose" => Len(sent[c]) = 1
        /\ last.op = "propose" =>
             /\ Len(last.sent) = 1 /\ last.sent[1].method = "POST"
             /\ Len(last.resps) <= 1)
  /\ [][/\ (last'.op = "propose" /\ last'.ret.st # "ok") =>
             /\ nonce' = nonce /\ handed' = handed
             /\ \A t \in Tasks : Len(sent'[t]) <= Len(sent[t])
        /\ \A c \in Callers :
             (Len(sent'[c]) > Len(sent[c]) \/ handed' # handed) =>
               (calls' = calls + 1 \/ op[c] \in {"pending", "next_nonce"})
       ]_vars

C9_Witness ==
  /\ last.op = "propose" /\ last.ret.st = "err"
  /\ ~LastX.sendOk
  /\ Len(last.sent) = 1

\* C10: the list request of pending() carries as nonce__gte the on-chain
\* nonce that the metadata fetch of the same call reported, and every
\* transaction in the result has a nonce at least that large.
C10_PendingLowerBound ==
  /\ \A t \in Tasks : pc[t] = "p_list" =>
       sent[t][Len(sent[t])].gte = got[t].infos[Len(got[t].infos)]
  /\ (last.op = "pending" /\ last.ret.st = "ok") =>
       /\ Len(last.got.infos) = 1
       /\ last.sent[2].gte = last.got.infos[1]
       /\ \A n \in last.ret.list : n >= last.got.infos[1]

C10_Witness ==
  /\ last.op = "pending" /\ last.ret.st = "ok"
  /\ last.got.infos = <<1>>
  /\ last.ret.list = {1, 2}

\* C16 (as stated): SafeClient::new performs exactly two remote reads, one
\* safe-metadata fetch followed by one pending-list fetch, and stores the
\* seed only after both, computed from what the two reads returned.
C16_TwoReadsThenSeed ==
  /\ client \in {"none", "constructing", "failed"} => seed = None
  /\ (last.op = "new" /\ last.ret.st = "ok") =>
       /\ last.sent = <<ReqInfo, ReqList(last.got.infos[1])>>
       /\ Len(last.got.infos) = 1
       /\ seed = (IF last.got.list = {} THEN last.got.infos[1]
                  ELSE SetMax(last.got.list) + 1) % NonceMod

\* C16 (amended): SafeClient::new performs exactly three remote reads, in
\* this order: the metadata fetch of next_nonce, the metadata fetch of
\* pending, and the pending-list fetch whose lower bound is the nonce of
\* the second metadata fetch.  The seed is stored only after all three were
\* answered, and is one past the largest listed nonce, or the nonce of the
\* FIRST metadata fetch when the list is empty.
C16_ThreeReadsThenSeed ==
  /\ client \in {"none", "constructing", "failed"} =>
       seed = None /\ nonce = 0
  /\ (last.op = "new" /\ last.ret.st = "ok") =>
       /\ Len(last.got.infos) = 2
       /\ last.sent = <<ReqInfo, ReqInfo, ReqList(last.got.infos[2])>>
       /\ Len(last.resps) = 3
       /\ \A i \in 1 .. 3 : Served(last.resps[i])
       /\ seed = (IF last.got.list = {} THEN last.got.infos[1]
                  ELSE SetMax(last.got.list) + 1) % NonceMod
       /\ nonce = seed /\ client = "ready"

\* The two metadata fetches of one construction reported different nonces.
C16_Witness ==
  /\ last.op = "new" /\ last.ret.st = "ok"
  /\ last.got.infos = <<0, 1>>
  /\ last.got.list = {}
  /\ seed = 0

\* C17: every nonce handed out by safe_tx_builder is at least the seed, and
\* none is handed out before the seed is stored.
C17_HandedAtLeastSeed ==
  /\ client \in {"none", "constructing", "failed"} => handed = <<>>
  /\ \A i \in 1 .. Len(handed) : seed # None /\ handed[i] >= seed

\* C18: once the client is constructed, its counter changes only in a step
\* of safe_tx_builder; a safe_info, pending or next_nonce that returns,
\* with whatever result, leaves it as it was.
C18_OnlyBuilderChangesCounter ==
  [][client = "ready" =>
       /\ nonce' # nonce =>
            /\ Len(handed') = Len(handed) + 1
            /\ last'.op = "none"
       /\ last'.op \in {"safe_info", "pending", "next_nonce"} =>
            nonce' = nonce /\ seed' = seed
    ]_vars

\* next_nonce returned a value that differs from the counter.
C18_Witness ==
  /\ last.op = "next_nonce" /\ last.ret.st = "ok"
  /\ client = "ready"
  /\ last.ret.num # nonce

\* ----------------------------------------------------- the wire encodings
\* The encoding of kind k has been applied.
Applied(k) == wireIn.kind = k /\ wireOut.st # "none"

\* C11: the request that try_from builds from a signed payload has the
\* digest of that payload as contract_transaction_hash, and its safe, to,
\* data, operation, gas token, sender, nonce and signature are those of the
\* payload (absent calldata as no bytes, the signature as its hex text).
C11_RequestMirrorsPayload ==
  (wireIn.kind = "propose" /\ wireOut.st = "ok") =>
    LET sp == wireIn.val
        req == wireOut.val
    IN /\ req.contract_transaction_hash = Digest(sp)
       /\ req.safe = sp.safe_address
       /\ req.to = sp.to
       /\ req.data = (IF sp.calldata = NoCalldata THEN <<>> ELSE sp.calldata)
       /\ req.operation = sp.operation
       /\ req.gas_token = sp.gas_token
       /\ req.sender = sp.sender
       /\ req.nonce = sp.nonce
       /\ req.signature = HexEncode(sp.signature)

\* A request was built from a payload whose signer is not the safe.
C11_Witness ==
  /\ wireIn.kind = "propose" /\ wireOut.st = "ok"
  /\ wireIn.val.safe_address # wireIn.val.sender
  /\ wireIn.val.to # wireIn.val.gas_token
  /\ wireIn.val.calldata # NoCalldata
  /\ wireIn.val.nonce = MaxU128

\* C12: in the JSON body of a request, nonce, value, safeTxGas, baseGas and
\* gasPrice are decimal strings, not JSON numbers.
LargeIntKeys ==
  [nonce |-> "nonce", value |-> "value", safeTxGas |-> "safe_tx_gas",
   baseGas |-> "base_gas", gasPrice |-> "gas_price"]
C12_LargeIntsAsDecimalStrings ==
  (wireIn.kind = "propose" /\ wireOut.json # JNull) =>
    \A k \in DOMAIN LargeIntKeys :
      /\ wireOut.json[k].t = "string"
      /\ wireOut.json[k] = SerializeDecimalU256(wireOut.val[LargeIntKeys[k]])

\* C13: an address text whose letter case is not that of its checksum is
\* rejected by the decoders of ChecksumAddress.
AddrText ==
  IF wireIn.kind = "address_from_str" THEN wireIn.val ELSE wireIn.val.s
CaseMismatch(s) ==
  LET d == HexDecode(StripPrefix0x(s)) IN
  /\ d.st = "ok"
  /\ Len(d.val) = AddrLen
  /\ <<"0", "x">> \o StripPrefix0x(s) # ToChecksum(d.val)
C13_BadCaseRejected ==
  ((Applied("address_from_str") \/ Applied("address_deserialize"))
     /\ CaseMismatch(AddrText)) =>
    wireOut.st = "err"

\* C14: decoding a hash text fails when, after one leading "0x", it holds
\* a character that is no hex digit or is not exactly two digits per byte
\* of a hash; what is accepted is the value of exactly those digits; and
\* decoding the encoding of a hash gives the hash.
C14_HashDecodeStrict ==
  /\ Applied("hash_decode") =>
       LET body == StripPrefix0x(wireIn.val.s) IN
       /\ ((\E i \in 1 .. Len(body) : ~IsHexChar(body[i]))
             \/ Len(body) # 2 * HashLen
             \/ wireIn.val.t # "string") => wireOut.st = "err"
       /\ wireOut.st = "ok" =>
            /\ Len(wireOut.val) = HashLen
            /\ \A i \in 1 .. HashLen :
                 wireOut.val[i]
                   = 16 * HexVal(body[2 * i - 1]) + HexVal(body[2 * i])
  /\ Applied("hash_roundtrip") =>
       /\ wireOut.json.s = <<"0", "x">> \o HexEncode(wireIn.val)
       /\ wireOut.st = "ok"
       /\ wireOut.val = wireIn.val

\* A text of hex digits that is one byte short of a hash was rejected.
C14_Witness ==
  /\ Applied("hash_decode")
  /\ wireIn.val.t = "string"
  /\ LET body == StripPrefix0x(wireIn.val.s) IN
     /\ Len(body) = 2 * (HashLen - 1)
     /\ \A i \in 1 .. Len(body) : IsHexChar(body[i])
  /\ wireOut.st = "err"

\* C15: an operation is written as the integer 0 for Call and 1 for
\* DelegateCall, decoding what was written gives the operation back, and
\* decoding any other integer fails.
C15_OperationCodec ==
  /\ Applied("operation_roundtrip") =>
       /\ wireOut.json = JNum(IF wireIn.val = "CALL" THEN 0 ELSE 1)
       /\ wireOut.st = "ok"
       /\ wireOut.val = wireIn.val
  /\ Applied("operation_decode") =>
       /\ (wireIn.val.t = "number" /\ wireIn.val.n \notin {0, 1}) =>
            wireOut.st = "err"
       /\ wireIn.val = JNum(0) => wireOut = WireOk("CALL")
       /\ wireIn.val = JNum(1) => wireOut = WireOk("DELEGATE")

\* The integer 2 was rejected.
C15_Witness ==
  /\ Applied("operation_decode")
  /\ wireIn.val = JNum(2)
  /\ wireOut.st = "err"

\* C19: converting a signed payload whose value, safe-tx-gas, base-gas,
\* gas-price and nonce are any 256-bit integers either gives a request with
\* exactly those numbers or returns an error; it neither truncates nor
\* aborts.
C19_ExactOrError ==
  Applied("propose") =>
    \/ wireOut.st = "err"
    \/ /\ wireOut.st = "ok"
       /\ \A f \in NumericFields : wireOut.val[f] = wireIn.val[f]

====
